---- MODULE Spec2Model ----
(***************************************************************************)
(* The typing-session engine of typestorm (src/src/app.rs) with its two    *)
(* collaborators, the word source (src/src/words.rs) and the history       *)
(* store (src/src/history.rs), as one state machine, and the curve         *)
(* synthesis of the performance view (src/src/ui.rs).                      *)
(*                                                                         *)
(* Strings are sequences of characters; a character is a one-letter        *)
(* string, except "E", which stands for a non-ASCII character (U+00E9,     *)
(* two UTF-8 bytes): String::len() counts bytes, chars() counts            *)
(* characters, and the code uses both.                                     *)
(* Instants and durations are whole clock units, UnitsPerSec to a second.  *)
(* An f64 is the exact rational it stands for, <<numerator, denominator>>  *)
(* in lowest terms: floating-point rounding is not modelled.               *)
(* One handler reads the clock once: the successive Instant::now() calls   *)
(* of one handler all return `now`.                                        *)
(***************************************************************************)
EXTENDS Integers, Sequences, FiniteSets, TLC

VARIABLES
    running,                 \* App.running
    mode,                    \* App.mode
    input,                   \* App.input
    target_text,             \* App.target_text
    start_time,              \* App.start_time: None or Some(instant)
    end_time,                \* App.end_time
    cursor_position,         \* App.cursor_position
    test_mode,               \* App.test_mode
    include_punctuation,     \* App.include_punctuation
    include_numbers,         \* App.include_numbers
    total_correct_strokes,   \* App.total_correct_strokes
    total_incorrect_strokes, \* App.total_incorrect_strokes
    wpm_history,             \* App.wpm_history
    error_points,            \* App.error_points
    last_wpm_sample,         \* App.last_wpm_sample
    history,                 \* App.history
    history_state,           \* App.history_state.selected()
    selected_history_index,  \* App.selected_history_index
    store,                   \* the history file
    now,                     \* the monotonic clock, Instant::now()
    key_events,              \* key events read so far by handle_events
    last_key,                \* the key event read last, None before the first
    wpm_data,                \* render_performance_view: the curve last drawn
    error_data               \* render_performance_view: the error series last drawn

vars == << running, mode, input, target_text, start_time, end_time,
           cursor_position, test_mode, include_punctuation, include_numbers,
           total_correct_strokes, total_incorrect_strokes, wpm_history,
           error_points, last_wpm_sample, history, history_state,
           selected_history_index, store, now, key_events, last_key,
           wpm_data, error_data >>

session == << input, target_text, start_time, end_time, cursor_position,
              total_correct_strokes, total_incorrect_strokes, wpm_history,
              error_points, last_wpm_sample >>

settings == << test_mode, include_punctuation, include_numbers >>

selection == << history_state, selected_history_index >>

\* the two series of the frame drawn last; drawing changes no field of App,
\* and the engine's specification leaves the frames out
frame == << wpm_data, error_data >>

(***************************************************************************)
(* Bounds of the model.                                                    *)
(***************************************************************************)
\* key events one run of the program reads
MaxKeyEvents == 5
\* the clock is read at the instants 0..MaxFine and at the shortest time limit
MaxFine == 2

\* clock units per second
UnitsPerSec == 2

(***************************************************************************)
(* Option<T>, f64 and strings.                                             *)
(***************************************************************************)
None == << >>

Some(x) == << x >>

RECURSIVE Gcd(_, _)
Gcd(a, b) == IF b = 0 THEN a ELSE Gcd(b, a % b)

\* the f64 n / d, d > 0, n >= 0
Rat(n, d) == LET g == Gcd(n, d) IN << n \div g, d \div g >>

\* p <= q, over the least common denominator
RatLeq(p, q) ==
    LET g == Gcd(p[2], q[2]) IN p[1] * (q[2] \div g) <= q[1] * (p[2] \div g)

\* the UTF-8 encoding of a character
Utf8(c) == IF c = "E" THEN << "C3", "A9" >> ELSE << c >>

\* str::as_bytes
RECURSIVE as_bytes(_)
as_bytes(s) == IF s = << >> THEN << >> ELSE Utf8(Head(s)) \o as_bytes(Tail(s))

\* str::len, String::len: the length in bytes
len(s) == Len(as_bytes(s))

\* str::chars().count()
chars_count(s) == Len(s)

(***************************************************************************)
(* The word source, src/src/words.rs.                                      *)
(***************************************************************************)
\* the word list, cut to two words over one letter
WORDS == << << "t" >>, << "t", "t" >> >>

\* the punctuation marks get_random_words appends
puncts == << << "." >>, << "," >>, << "!" >>, << "?" >>, << ";" >>, << ":" >> >>

\* the marks the model draws from puncts
PunctSamples == { puncts[1] }

\* the numbers the model draws from gen_range(0..1000)
NumberSamples == { 7 }

Digits == << "0", "1", "2", "3", "4", "5", "6", "7", "8", "9" >>

\* i32::to_string
RECURSIVE to_string(_)
to_string(n) ==
    IF n < 10 THEN << Digits[n + 1] >>
    ELSE to_string(n \div 10) \o << Digits[(n % 10) + 1] >>

Min(a, b) == IF a <= b THEN a ELSE b

\* SliceRandom::choose_multiple: amount distinct elements (all of them when
\* the slice is shorter), in any order
choose_multiple(slice, amount) ==
    LET k == Min(amount, Len(slice)) IN
    { [ i \in 1..k |-> slice[f[i]] ] :
        f \in { g \in [ 1..k -> 1..Len(slice) ] :
                  \A i, j \in 1..k : i # j => g[i] # g[j] } }

\* what one word may become under the two toggles
WordVariants(word, punctuation, numbers) ==
    LET afterNumbers ==
            IF numbers
            THEN { word } \cup { to_string(n) : n \in NumberSamples }
            ELSE { word }
    IN  IF punctuation
        THEN afterNumbers \cup { w \o p : w \in afterNumbers, p \in PunctSamples }
        ELSE afterNumbers

\* every vector of words get_random_words may return
get_random_words(count, punctuation, numbers) ==
    UNION { { ws \in [ 1..Len(chosen) ->
                       UNION { WordVariants(chosen[i], punctuation, numbers) :
                               i \in 1..Len(chosen) } ] :
                \A i \in 1..Len(chosen) :
                    ws[i] \in WordVariants(chosen[i], punctuation, numbers) } :
            chosen \in choose_multiple(WORDS, count) }

\* [String]::join(" ")
RECURSIVE join(_)
join(words) ==
    IF words = << >> THEN << >>
    ELSE IF Len(words) = 1 THEN words[1]
    ELSE words[1] \o << " " >> \o join(Tail(words))

(***************************************************************************)
(* Test modes and metrics, src/src/app.rs.                                 *)
(***************************************************************************)
Words(n) == [ kind |-> "Words", n |-> n ]

Time(s) == [ kind |-> "Time", n |-> s ]

\* impl Display for TestMode
Display(tm) ==
    IF tm.kind = "Words" THEN << "Words: ", tm.n >> ELSE << "Time: ", tm.n, "s" >>

\* cycle_word_mode that stays at the last value instead of wrapping
cycle_word_mode_without_wrap(tm) ==
    IF tm = Words(10) THEN Words(25)
    ELSE IF tm = Words(25) THEN Words(50)
    ELSE IF tm = Words(50) THEN Words(100)
    ELSE IF tm = Words(100) THEN Words(100)
    ELSE Words(10)

\* App::cycle_word_mode
cycle_word_mode(tm) ==
    IF tm = Words(10) THEN Words(25)
    ELSE IF tm = Words(25) THEN Words(50)
    ELSE IF tm = Words(50) THEN Words(100)
    ELSE Words(10)

\* App::cycle_time_mode
cycle_time_mode(tm) ==
    IF tm = Time(15) THEN Time(30)
    ELSE IF tm = Time(30) THEN Time(60)
    ELSE Time(15)

\* Instant::duration_since / Instant::elapsed, in clock units
duration_since(later, earlier) == later - earlier

\* a duration read in clock units where whole seconds are meant
as_units(d) == d

\* Duration::as_secs: whole seconds
as_secs(d) == d \div UnitsPerSec

\* App::calculate_wpm on the fields start_time, end_time and input
calculate_wpm(st, et, inp) ==
    IF st = None THEN << 0, 1 >>
    ELSE LET duration == IF et # None THEN duration_since(et[1], st[1])
                         ELSE duration_since(now, st[1])
         IN  IF duration = 0 THEN << 0, 1 >>
             ELSE Rat(len(inp) * 60 * UnitsPerSec, 5 * duration)

\* calculate_accuracy without the guard for a session with no strokes,
\* where the float division 0/0 is no number and prints as 0
calculate_accuracy_unguarded(correct, incorrect) ==
    LET total_strokes == correct + incorrect IN
    IF total_strokes = 0 THEN << 0, 1 >>
    ELSE Rat(correct * 100, total_strokes)

\* App::calculate_accuracy on the two stroke counters
calculate_accuracy(correct, incorrect) ==
    LET total_strokes == correct + incorrect IN
    IF total_strokes = 0 THEN << 100, 1 >>
    ELSE Rat(correct * 100, total_strokes)

(***************************************************************************)
(* The history store, src/src/history.rs.                                  *)
(***************************************************************************)
\* TestResult
TestResult(timestamp, label, wpm, accuracy, samples, errors) ==
    [ timestamp |-> timestamp, mode |-> label, wpm |-> wpm,
      accuracy |-> accuracy, wpm_history |-> samples, error_points |-> errors ]

\* serde_json::to_string_pretty of a Vec<TestResult>: an array of objects,
\* each a list of key/value pairs in field order
to_json(results) ==
    [ i \in 1..Len(results) |->
        << << "timestamp", results[i].timestamp >>,
           << "mode", results[i].mode >>,
           << "wpm", results[i].wpm >>,
           << "accuracy", results[i].accuracy >>,
           << "wpm_history", results[i].wpm_history >>,
           << "error_points", results[i].error_points >> >> ]

\* serde_json::from_str into a Vec<TestResult>
from_json(content) ==
    [ i \in 1..Len(content) |->
        LET field(k) == (CHOOSE kv \in { content[i][j] : j \in 1..Len(content[i]) } :
                            kv[1] = k)[2]
        IN  TestResult(field("timestamp"), field("mode"), field("wpm"),
                       field("accuracy"), field("wpm_history"),
                       field("error_points")) ]

Missing == [ kind |-> "Missing" ]

Corrupt == [ kind |-> "Corrupt" ]

File(content) == [ kind |-> "File", content |-> content ]

\* load_history: Ok(results) or Err
load_history(file) ==
    IF file.kind = "Missing" THEN [ ok |-> TRUE, value |-> << >> ]
    ELSE IF file.kind = "Corrupt" THEN [ ok |-> FALSE ]
    ELSE [ ok |-> TRUE, value |-> from_json(file.content) ]

\* save_history that appends to the file instead of replacing it
save_history_appending(file, results) ==
    { File((IF file.kind = "File" THEN file.content ELSE << >>)
           \o to_json(results)),
      file }

\* save_history: the file after a write that succeeds, or one that fails
\* and leaves the file as it was
save_history(file, results) == { File(to_json(results)), file }

\* two results of earlier runs, as a history file may hold them
StoredResults ==
    << TestResult(0, Display(Words(10)), << 60, 1 >>, << 197, 2 >>,
                  << << 2, << 50, 1 >> >>, << 4, << 60, 1 >> >> >>,
                  << << 3, << 55, 1 >> >> >>),
       TestResult(0, Display(Time(15)), << 0, 1 >>, << 100, 1 >>, << >>, << >>) >>

\* the history files the program may find at startup
InitialStores == { Missing, Corrupt, File(to_json(StoredResults)) }

(***************************************************************************)
(* The session engine, src/src/app.rs.                                     *)
(***************************************************************************)
\* KeyCode
Char(c) == [ code |-> "Char", c |-> c ]

Esc == [ code |-> "Esc" ]

Enter == [ code |-> "Enter" ]

Backspace == [ code |-> "Backspace" ]

Up == [ code |-> "Up" ]

Down == [ code |-> "Down" ]

Tab == [ code |-> "Tab" ]

\* the characters typed during a session: the words' letter (a key that
\* Welcome binds), the space and a non-ASCII character
TypedChars == { "t", " ", "E" }

\* the keys the model delivers in each mode: every key the mode's match
\* names, and Tab for its catch-all arm
KeysIn(m) ==
    IF m = "Typing"
    THEN { Char(c) : c \in TypedChars } \cup { Esc, Backspace, Tab }
    ELSE IF m = "Welcome"
    THEN { Char(c) : c \in { "q", "w", "t", "p", "n", "h" } } \cup { Esc, Enter, Tab }
    ELSE IF m = "History"
    THEN { Char(c) : c \in { "q", "k", "j" } } \cup { Esc, Up, Down, Enter, Tab }
    ELSE IF m = "HistoryDetails"
    THEN { Char("q"), Esc, Backspace, Tab }
    ELSE { Char(c) : c \in { "q", "r" } } \cup { Esc, Enter, Tab }

\* the instants at which the clock is read: the first MaxFine units, and
\* the shortest time limit
Instants == (0..MaxFine) \cup { 15 * UnitsPerSec }

\* App::default and App::new: the fields after construction, given the
\* history file found
Init ==
    /\ store \in InitialStores
    /\ running = TRUE
    /\ mode = "Welcome"
    /\ input = << >>
    /\ target_text = << >>
    /\ start_time = None
    /\ end_time = None
    /\ cursor_position = 0
    /\ test_mode = Words(10)
    /\ include_punctuation = FALSE
    /\ include_numbers = FALSE
    /\ total_correct_strokes = 0
    /\ total_incorrect_strokes = 0
    /\ wpm_history = << >>
    /\ error_points = << >>
    /\ last_wpm_sample = None
    /\ history = IF load_history(store).ok THEN load_history(store).value ELSE << >>
    /\ history_state = None
    /\ selected_history_index = 0
    /\ now = 0
    /\ key_events = 0
    /\ last_key = None
    /\ wpm_data = << >>
    /\ error_data = << >>

\* save_result that gives up when the file cannot be written, before the
\* result is pushed
save_result_giving_up(st, et, inp, correct, incorrect, samples, errors) ==
    LET results == Append(history,
                          TestResult(now, Display(test_mode),
                                     calculate_wpm(st, et, inp),
                                     calculate_accuracy(correct, incorrect),
                                     samples, errors))
    IN  /\ store' \in save_history(store, results)
        /\ history' = IF store' = File(to_json(results)) THEN results
                      ELSE history

\* save_result that copies the samples the session had before the handler
\* pushed the final one
save_result_before_final_sample(st, et, inp, correct, incorrect, samples, errors) ==
    /\ history' = Append(history,
                         TestResult(now, Display(test_mode),
                                    calculate_wpm(st, et, inp),
                                    calculate_accuracy(correct, incorrect),
                                    wpm_history, errors))
    /\ store' \in save_history(store, history')

\* save_result that puts the result first, the order the history view
\* lists them in
save_result_newest_first(st, et, inp, correct, incorrect, samples, errors) ==
    /\ history' = << TestResult(now, Display(test_mode),
                                calculate_wpm(st, et, inp),
                                calculate_accuracy(correct, incorrect),
                                samples, errors) >> \o history
    /\ store' \in save_history(store, history')

\* App::save_result, given the session's fields at the call
save_result(st, et, inp, correct, incorrect, samples, errors) ==
    /\ history' = Append(history,
                         TestResult(now, Display(test_mode),
                                    calculate_wpm(st, et, inp),
                                    calculate_accuracy(correct, incorrect),
                                    samples, errors))
    /\ store' \in save_history(store, history')

\* the values App::start_typing gives the session's fields
fresh_session ==
    [ input |-> << >>, mode |-> "Typing", start_time |-> None,
      end_time |-> None, cursor_position |-> 0, total_correct_strokes |-> 0,
      total_incorrect_strokes |-> 0, wpm_history |-> << >>,
      error_points |-> << >>, last_wpm_sample |-> None ]

\* start_typing that leaves the typed text and the cursor where they were
started_keeping_input ==
    [ fresh_session EXCEPT !.input = input, !.cursor_position = cursor_position ]

\* start_typing that leaves end_time as the last session set it
started_keeping_end_time == [ fresh_session EXCEPT !.end_time = end_time ]

\* start_typing that starts the timer at once
started_with_timer == [ fresh_session EXCEPT !.start_time = Some(now) ]

\* the session as App::start_typing leaves it, target_text apart
started == fresh_session

\* App::start_typing
start_typing ==
    LET count == IF test_mode.kind = "Words" THEN test_mode.n ELSE 100 IN
    /\ \E words \in get_random_words(count, include_punctuation, include_numbers) :
           target_text' = join(words)
    /\ input' = started.input
    /\ mode' = started.mode
    /\ start_time' = started.start_time
    /\ end_time' = started.end_time
    /\ cursor_position' = started.cursor_position
    /\ total_correct_strokes' = started.total_correct_strokes
    /\ total_incorrect_strokes' = started.total_incorrect_strokes
    /\ wpm_history' = started.wpm_history
    /\ error_points' = started.error_points
    /\ last_wpm_sample' = started.last_wpm_sample
    /\ UNCHANGED << running, settings, history, selection, store >>

\* Chars::nth(i) off by one: the character before position i
nth_off_by_one(s, i) ==
    IF 0 < i /\ i <= chars_count(s) THEN Some(s[i]) ELSE None

\* str::chars().nth(i): the character at position i (from 0), if any
nth(s, i) == IF i < chars_count(s) THEN Some(s[i + 1]) ELSE None

\* check_completion that stamps the final sample in whole seconds
check_completion_whole_seconds(st, inp, correct, incorrect, errors) ==
    IF len(inp) >= len(target_text)
    THEN LET et == Some(now)
             elapsed == duration_since(now, st[1])
             samples ==
                 IF st # None /\ elapsed >= UnitsPerSec
                 THEN Append(wpm_history,
                             << as_secs(elapsed) * UnitsPerSec,
                                calculate_wpm(st, et, inp) >>)
                 ELSE wpm_history
         IN  /\ end_time' = et
             /\ wpm_history' = samples
             /\ save_result(st, et, inp, correct, incorrect, samples, errors)
             /\ mode' = "Results"
    ELSE UNCHANGED << end_time, wpm_history, history, store, mode >>

\* check_completion that ends the session one character late
check_completion_past_end(st, inp, correct, incorrect, errors) ==
    IF len(inp) > len(target_text)
    THEN LET et == Some(now)
             elapsed == duration_since(now, st[1])
             samples ==
                 IF st # None /\ elapsed >= UnitsPerSec
                 THEN Append(wpm_history, << elapsed, calculate_wpm(st, et, inp) >>)
                 ELSE wpm_history
         IN  /\ end_time' = et
             /\ wpm_history' = samples
             /\ save_result(st, et, inp, correct, incorrect, samples, errors)
             /\ mode' = "Results"
    ELSE UNCHANGED << end_time, wpm_history, history, store, mode >>

\* App::check_completion, given the fields the keystroke has just set
check_completion(st, inp, correct, incorrect, errors) ==
    IF len(inp) >= len(target_text)
    THEN LET et == Some(now)
             elapsed == duration_since(now, st[1])
             samples ==
                 IF st # None /\ elapsed >= UnitsPerSec
                 THEN Append(wpm_history, << elapsed, calculate_wpm(st, et, inp) >>)
                 ELSE wpm_history
         IN  /\ end_time' = et
             /\ wpm_history' = samples
             /\ save_result(st, et, inp, correct, incorrect, samples, errors)
             /\ mode' = "Results"
    ELSE UNCHANGED << end_time, wpm_history, history, store, mode >>

\* typing_char that records an error point only after the first second,
\* as tick samples the WPM
typing_char_gating_errors(c) ==
    LET st == IF start_time = None THEN Some(now) ELSE start_time
        target_char == nth(target_text, cursor_position)
        is_correct == target_char # None /\ c = target_char[1]
        correct == total_correct_strokes + (IF is_correct THEN 1 ELSE 0)
        incorrect == total_incorrect_strokes + (IF is_correct THEN 0 ELSE 1)
        elapsed == duration_since(now, st[1])
        errors ==
            IF is_correct \/ elapsed < UnitsPerSec THEN error_points
            ELSE Append(error_points,
                        << elapsed, calculate_wpm(st, end_time, input) >>)
        inp == Append(input, c)
    IN  /\ start_time' = st
        /\ total_correct_strokes' = correct
        /\ total_incorrect_strokes' = incorrect
        /\ error_points' = errors
        /\ input' = inp
        /\ cursor_position' = cursor_position + 1
        /\ check_completion(st, inp, correct, incorrect, errors)
        /\ UNCHANGED << running, target_text, settings, last_wpm_sample, selection >>

\* handle_key_event, AppMode::Typing, KeyCode::Char(c)
typing_char(c) ==
    LET st == IF start_time = None THEN Some(now) ELSE start_time
        target_char == nth(target_text, cursor_position)
        is_correct == target_char # None /\ c = target_char[1]
        correct == total_correct_strokes + (IF is_correct THEN 1 ELSE 0)
        incorrect == total_incorrect_strokes + (IF is_correct THEN 0 ELSE 1)
        elapsed == duration_since(now, st[1])
        errors ==
            IF is_correct THEN error_points
            ELSE Append(error_points,
                        << elapsed, calculate_wpm(st, end_time, input) >>)
        inp == Append(input, c)
    IN  /\ start_time' = st
        /\ total_correct_strokes' = correct
        /\ total_incorrect_strokes' = incorrect
        /\ error_points' = errors
        /\ input' = inp
        /\ cursor_position' = cursor_position + 1
        /\ check_completion(st, inp, correct, incorrect, errors)
        /\ UNCHANGED << running, target_text, settings, last_wpm_sample, selection >>

\* the byte offsets of s that lie on a character boundary
char_boundaries(s) == { len(SubSeq(s, 1, k)) : k \in 0..Len(s) }

\* str::get(from..to).unwrap_or(""): the bytes from..to of s, or "" when
\* the range is out of bounds or cuts a character
get_or_empty(s, from, to) ==
    IF from <= to /\ to <= len(s)
       /\ from \in char_boundaries(s) /\ to \in char_boundaries(s)
    THEN SubSeq(as_bytes(s), from + 1, to)
    ELSE << >>

\* word_start with the scan starting at the final byte, the trailing space
word_start_from_last(inp) == len(inp)

\* the byte offset at which the word that input has just finished starts:
\* one past the last space before the final byte, or 0
word_start(inp) ==
    LET bytes == as_bytes(inp)
        spaces == { i \in 0..(Len(bytes) - 2) : bytes[i + 1] = " " }
    IN  IF Len(bytes) > 1 /\ spaces # {}
        THEN (CHOOSE i \in spaces : \A j \in spaces : j <= i) + 1
        ELSE 0

\* a backspace without the word-boundary lock
backspace_blocked_never(inp, target) == FALSE

\* the word-boundary lock: input ends in a space and the segment from
\* word_start on equals the target's bytes over the same range
backspace_blocked(inp, target) ==
    /\ inp[Len(inp)] = " "
    /\ LET start_idx == word_start(inp)
           current_segment == SubSeq(as_bytes(inp), start_idx + 1, len(inp))
           target_segment == get_or_empty(target, start_idx, len(inp))
       IN  current_segment = target_segment

\* a backspace that sets the cursor and the correct-stroke counter as given
backspace_setting(cursor, correct) ==
    IF input # << >> /\ ~backspace_blocked(input, target_text)
    THEN /\ input' = SubSeq(input, 1, Len(input) - 1)
         /\ cursor_position' = cursor
         /\ total_correct_strokes' = correct
         /\ UNCHANGED << running, mode, target_text, start_time, end_time,
                         settings, total_incorrect_strokes, wpm_history,
                         error_points, last_wpm_sample, history, selection,
                         store >>
    ELSE UNCHANGED << running, mode, session, settings, history, selection, store >>

\* a backspace that forgets to move the cursor back
typing_backspace_keeping_cursor ==
    backspace_setting(cursor_position, total_correct_strokes)

\* a backspace that takes the deleted stroke back out of the count
typing_backspace_uncounting ==
    backspace_setting(cursor_position - 1,
                      IF total_correct_strokes > 0
                      THEN total_correct_strokes - 1 ELSE 0)

\* handle_key_event, AppMode::Typing, KeyCode::Backspace
typing_backspace ==
    IF input # << >> /\ ~backspace_blocked(input, target_text)
    THEN /\ input' = SubSeq(input, 1, Len(input) - 1)
         /\ cursor_position' = cursor_position - 1
         /\ UNCHANGED << running, mode, target_text, start_time, end_time,
                         settings, total_correct_strokes,
                         total_incorrect_strokes, wpm_history, error_points,
                         last_wpm_sample, history, selection, store >>
    ELSE UNCHANGED << running, mode, session, settings, history, selection, store >>

\* a cancel that records the unfinished session as a result
typing_esc_saving_result ==
    /\ mode' = "Welcome"
    /\ start_time' = None
    /\ save_result(start_time, end_time, input, total_correct_strokes,
                   total_incorrect_strokes, wpm_history, error_points)
    /\ UNCHANGED << running, input, target_text, end_time, cursor_position,
                    settings, total_correct_strokes, total_incorrect_strokes,
                    wpm_history, error_points, last_wpm_sample, selection >>

\* handle_key_event, AppMode::Typing, KeyCode::Esc: the cancel action
typing_esc ==
    /\ mode' = "Welcome"
    /\ start_time' = None
    /\ UNCHANGED << running, input, target_text, end_time, cursor_position,
                    settings, total_correct_strokes, total_incorrect_strokes,
                    wpm_history, error_points, last_wpm_sample, history,
                    selection, store >>

\* handle_key_event, AppMode::Typing
typing_key(key) ==
    IF key = Esc THEN typing_esc
    ELSE IF key.code = "Char" THEN typing_char(key.c)
    ELSE IF key = Backspace THEN typing_backspace
    ELSE UNCHANGED << running, mode, session, settings, history, selection, store >>

\* opening the history list with the typed text cleared on the way
open_history_clearing_input ==
    /\ mode' = "History"
    /\ history_state' = Some(0)
    /\ selected_history_index' = 0
    /\ input' = << >>
    /\ cursor_position' = 0
    /\ UNCHANGED << running, target_text, start_time, end_time,
                    total_correct_strokes, total_incorrect_strokes,
                    wpm_history, error_points, last_wpm_sample, settings,
                    history, store >>

\* handle_key_event, AppMode::Welcome, KeyCode::Char('h')
open_history ==
    /\ mode' = "History"
    /\ history_state' = Some(0)
    /\ selected_history_index' = 0
    /\ UNCHANGED << running, session, settings, history, store >>

\* handle_key_event, AppMode::Welcome
welcome_key(key) ==
    IF key \in { Char("q"), Esc }
    THEN /\ running' = FALSE
         /\ UNCHANGED << mode, session, settings, history, selection, store >>
    ELSE IF key = Enter THEN start_typing
    ELSE IF key = Char("w")
    THEN /\ test_mode' = cycle_word_mode(test_mode)
         /\ UNCHANGED << running, mode, session, include_punctuation,
                         include_numbers, history, selection, store >>
    ELSE IF key = Char("t")
    THEN /\ test_mode' = cycle_time_mode(test_mode)
         /\ UNCHANGED << running, mode, session, include_punctuation,
                         include_numbers, history, selection, store >>
    ELSE IF key = Char("p")
    THEN /\ include_punctuation' = ~include_punctuation
         /\ UNCHANGED << running, mode, session, test_mode, include_numbers,
                         history, selection, store >>
    ELSE IF key = Char("n")
    THEN /\ include_numbers' = ~include_numbers
         /\ UNCHANGED << running, mode, session, test_mode,
                         include_punctuation, history, selection, store >>
    ELSE IF key = Char("h") THEN open_history
    ELSE UNCHANGED << running, mode, session, settings, history, selection, store >>

\* history_key whose Down goes on past the last row
history_key_without_wrap(key) ==
    IF key \in { Esc, Char("q") }
    THEN /\ mode' = "Welcome"
         /\ UNCHANGED << running, session, settings, history, selection, store >>
    ELSE IF key \in { Up, Char("k") } /\ history # << >>
    THEN LET i == IF history_state = None THEN 0
                  ELSE IF history_state[1] = 0 THEN Len(history) - 1
                  ELSE history_state[1] - 1
         IN  /\ history_state' = Some(i)
             /\ selected_history_index' = i
             /\ UNCHANGED << running, mode, session, settings, history, store >>
    ELSE IF key \in { Down, Char("j") } /\ history # << >>
    THEN LET i == IF history_state = None THEN 0 ELSE history_state[1] + 1
         IN  /\ history_state' = Some(i)
             /\ selected_history_index' = i
             /\ UNCHANGED << running, mode, session, settings, history, store >>
    ELSE IF key = Enter /\ history # << >>
    THEN /\ mode' = "HistoryDetails"
         /\ UNCHANGED << running, session, settings, history, selection, store >>
    ELSE UNCHANGED << running, mode, session, settings, history, selection, store >>

\* handle_key_event, AppMode::History
history_key(key) ==
    IF key \in { Esc, Char("q") }
    THEN /\ mode' = "Welcome"
         /\ UNCHANGED << running, session, settings, history, selection, store >>
    ELSE IF key \in { Up, Char("k") } /\ history # << >>
    THEN LET i == IF history_state = None THEN 0
                  ELSE IF history_state[1] = 0 THEN Len(history) - 1
                  ELSE history_state[1] - 1
         IN  /\ history_state' = Some(i)
             /\ selected_history_index' = i
             /\ UNCHANGED << running, mode, session, settings, history, store >>
    ELSE IF key \in { Down, Char("j") } /\ history # << >>
    THEN LET i == IF history_state = None THEN 0
                  ELSE IF history_state[1] >= Len(history) - 1 THEN 0
                  ELSE history_state[1] + 1
         IN  /\ history_state' = Some(i)
             /\ selected_history_index' = i
             /\ UNCHANGED << running, mode, session, settings, history, store >>
    ELSE IF key = Enter /\ history # << >>
    THEN /\ mode' = "HistoryDetails"
         /\ UNCHANGED << running, session, settings, history, selection, store >>
    ELSE UNCHANGED << running, mode, session, settings, history, selection, store >>

\* handle_key_event, AppMode::HistoryDetails
history_details_key(key) ==
    IF key \in { Esc, Char("q"), Backspace }
    THEN /\ mode' = "History"
         /\ UNCHANGED << running, session, settings, history, selection, store >>
    ELSE UNCHANGED << running, mode, session, settings, history, selection, store >>

\* handle_key_event, AppMode::Results
results_key(key) ==
    IF key \in { Char("q"), Esc }
    THEN /\ running' = FALSE
         /\ UNCHANGED << mode, session, settings, history, selection, store >>
    ELSE IF key \in { Enter, Char("r") } THEN start_typing
    ELSE UNCHANGED << running, mode, session, settings, history, selection, store >>

\* handle_key_event with the configuration keys of Welcome bound in Typing
\* as well
handle_key_event_binding_everywhere(key) ==
    IF mode = "Welcome" \/ (mode = "Typing" /\ key = Char("t")) THEN welcome_key(key)
    ELSE IF mode = "History" THEN history_key(key)
    ELSE IF mode = "HistoryDetails" THEN history_details_key(key)
    ELSE IF mode = "Typing" THEN typing_key(key)
    ELSE results_key(key)

\* App::handle_key_event
handle_key_event(key) ==
    IF mode = "Welcome" THEN welcome_key(key)
    ELSE IF mode = "History" THEN history_key(key)
    ELSE IF mode = "HistoryDetails" THEN history_details_key(key)
    ELSE IF mode = "Typing" THEN typing_key(key)
    ELSE results_key(key)

\* App::handle_events, when the poll returns a key event
handle_events ==
    /\ running
    /\ key_events < MaxKeyEvents
    /\ \E key \in KeysIn(mode) : handle_key_event(key) /\ last_key' = Some(key)
    /\ key_events' = key_events + 1
    /\ now' = now
    /\ UNCHANGED frame

\* tick's guard without the mode test: any mode with a running timer
ticking_in_any_mode == start_time # None

\* tick's guard with the finished session let through as well
ticking_in_results == mode \in { "Typing", "Results" } /\ start_time # None

\* tick's guard with the test for the kind of session turned around
ticking_in_word_mode ==
    mode = "Typing" /\ start_time # None /\ test_mode.kind = "Words"

\* tick's guards: the mode is Typing and the timer is running
ticking == mode = "Typing" /\ start_time # None

\* should_sample without the throttle
should_sample_always == TRUE

\* tick's should_sample: no periodic sample yet, or the last one a second
\* or more ago
should_sample ==
    IF last_wpm_sample = None THEN TRUE
    ELSE duration_since(now, last_wpm_sample[1]) >= UnitsPerSec

\* App::tick
tick ==
    /\ running
    /\ IF ticking
       THEN LET elapsed == duration_since(now, start_time[1])
                sampled == elapsed >= UnitsPerSec /\ should_sample
                samples ==
                    IF sampled
                    THEN Append(wpm_history,
                                << elapsed,
                                   calculate_wpm(start_time, end_time, input) >>)
                    ELSE wpm_history
                timed_out ==
                    test_mode.kind = "Time" /\ as_secs(elapsed) >= test_mode.n
                et == Some(now)
                final ==
                    IF elapsed >= UnitsPerSec
                    THEN Append(samples,
                                << elapsed, calculate_wpm(start_time, et, input) >>)
                    ELSE samples
            IN  /\ last_wpm_sample' = IF sampled THEN Some(now) ELSE last_wpm_sample
                /\ IF timed_out
                   THEN /\ end_time' = et
                        /\ wpm_history' = final
                        /\ save_result(start_time, et, input,
                                       total_correct_strokes,
                                       total_incorrect_strokes, final,
                                       error_points)
                        /\ mode' = "Results"
                   ELSE /\ wpm_history' = samples
                        /\ UNCHANGED << end_time, history, store, mode >>
                /\ UNCHANGED << running, input, target_text, start_time,
                                cursor_position, settings,
                                total_correct_strokes, total_incorrect_strokes,
                                error_points, selection >>
       ELSE UNCHANGED << running, mode, session, settings, history, selection, store >>
    /\ UNCHANGED << now, key_events, last_key, frame >>

\* time passes between two handlers; only the handlers of Typing read the
\* clock, so the model lets it advance there alone
advance_clock ==
    /\ running
    /\ mode = "Typing"
    /\ \E t \in Instants : t > now /\ now' = t
    /\ UNCHANGED << running, mode, session, settings, history, selection,
                    store, key_events, last_key, frame >>

Next == handle_events \/ tick \/ advance_clock

Spec == Init /\ [][Next]_vars

(***************************************************************************)
(* The performance view, src/src/ui.rs: curve smoothing and error-density  *)
(* binning of a session's wpm_history and error_points.                    *)
(***************************************************************************)
\* samples and error points a stored result holds at most
MaxSamples == 3
MaxErrors == 3

\* an f64 of either sign: n / d, d > 0
Frac(n, d) ==
    IF n < 0 THEN << -(Rat(-n, d)[1]), Rat(-n, d)[2] >> ELSE Rat(n, d)

f64(n) == << n, 1 >>

\* p + q, over the least common denominator
RatAdd(p, q) ==
    LET g == Gcd(p[2], q[2]) IN
    Frac(p[1] * (q[2] \div g) + q[1] * (p[2] \div g), (p[2] \div g) * q[2])

RatMul(p, q) == Frac(p[1] * q[1], p[2] * q[2])

\* f64::max
RatMax(p, q) == IF RatLeq(p, q) THEN q ELSE p

\* Duration::as_secs_f64: the seconds that a number of clock units is
as_secs_f64(units) == Rat(units, UnitsPerSec)

\* a series of the engine, elapsed times in clock units, as the (f64, f64)
\* points the view reads
points(series) ==
    [ i \in 1..Len(series) |-> << as_secs_f64(series[i][1]), series[i][2] >> ]

\* c0*a0 + c1*a1 + c2*a2 + c3*a3
combination(c0, a0, c1, a1, c2, a2, c3, a3) ==
    RatAdd(RatAdd(RatMul(f64(c0), a0), RatMul(f64(c1), a1)),
           RatAdd(RatMul(f64(c2), a2), RatMul(f64(c3), a3)))

\* one coordinate of the Catmull-Rom segment p1..p2 at parameter t
catmull_rom(a0, a1, a2, a3, t) ==
    LET t2 == RatMul(t, t)
        t3 == RatMul(t2, t)
    IN  RatMul(<< 1, 2 >>,
               RatAdd(RatAdd(RatMul(f64(2), a1),
                             RatMul(combination(-1, a0, 0, a1, 1, a2, 0, a3), t)),
                      RatAdd(RatMul(combination(2, a0, -5, a1, 4, a2, -1, a3), t2),
                             RatMul(combination(-1, a0, 3, a1, -3, a2, 1, a3), t3))))

\* interpolate_data that leaves out the push of the last raw point
interpolate_data_without_last(data, resolution) ==
    IF Len(data) < 2 THEN data
    ELSE [ k \in 1..((Len(data) - 1) * resolution) |->
             LET i == (k - 1) \div resolution
                 t == Rat((k - 1) % resolution, resolution)
                 p0 == IF i = 0 THEN data[1] ELSE data[i]
                 p1 == data[i + 1]
                 p2 == data[i + 2]
                 p3 == IF i + 2 < Len(data) THEN data[i + 3] ELSE p2
             IN  << catmull_rom(p0[1], p1[1], p2[1], p3[1], t),
                    catmull_rom(p0[2], p1[2], p2[2], p3[2], t) >> ]

\* interpolate_data: `resolution` points on each segment between two raw
\* points, then the last raw point
interpolate_data(data, resolution) ==
    IF Len(data) < 2 THEN data
    ELSE Append([ k \in 1..((Len(data) - 1) * resolution) |->
                    LET i == (k - 1) \div resolution
                        t == Rat((k - 1) % resolution, resolution)
                        p0 == IF i = 0 THEN data[1] ELSE data[i]
                        p1 == data[i + 1]
                        p2 == data[i + 2]
                        p3 == IF i + 2 < Len(data) THEN data[i + 3] ELSE p2
                    IN  << catmull_rom(p0[1], p1[1], p2[1], p3[1], t),
                           catmull_rom(p0[2], p1[2], p2[2], p3[2], t) >> ],
                data[Len(data)])

\* let bin_size = 1.5
bin_size == << 3, 2 >>

\* the last raw sample's time, 60.0 without samples, and 1.0 at least
max_time(raw) ==
    RatMax(IF raw = << >> THEN f64(60) ELSE raw[Len(raw)][1], f64(1))

\* (x / bin_size).floor() as usize, x >= 0
floor_bins(x) == (x[1] * bin_size[2]) \div (x[2] * bin_size[1])

\* num_bins without the bin added after the last one
num_bins_without_spare(raw) ==
    LET n == max_time(raw)[1] * bin_size[2]
        d == max_time(raw)[2] * bin_size[1]
    IN  (n + d - 1) \div d

\* (max_time / bin_size).ceil() as usize + 1
num_bins(raw) ==
    LET n == max_time(raw)[1] * bin_size[2]
        d == max_time(raw)[2] * bin_size[1]
    IN  ((n + d - 1) \div d) + 1

\* error_bins: the number of error points in each bin, the points past the
\* last bin left out
error_bins(raw, errors) ==
    [ b \in 0..(num_bins(raw) - 1) |->
        Cardinality({ j \in 1..Len(errors) : floor_bins(errors[j][1]) = b }) ]

\* the largest of a set of naturals, 0 for the empty set
Largest(S) == IF S = {} THEN 0 ELSE CHOOSE n \in S : \A m \in S : m <= n

\* error_bins.iter().max().unwrap_or(&0)
max_error_count(raw, errors) ==
    Largest({ error_bins(raw, errors)[b] : b \in 0..(num_bins(raw) - 1) })

\* the largest of the values data[lo][2] .. data[hi][2], lo <= hi: that of
\* the two halves of the range
RECURSIVE max_between(_, _, _)
max_between(data, lo, hi) ==
    IF lo = hi THEN data[lo][2]
    ELSE LET mid == (lo + hi) \div 2 IN
         RatMax(max_between(data, lo, mid), max_between(data, mid + 1, hi))

\* wpm_data.iter().map(|(_, w)| *w).fold(0.0, f64::max)
fold_max(data, acc) ==
    IF data = << >> THEN acc ELSE RatMax(acc, max_between(data, 1, Len(data)))

\* max_wpm without the floor of 10.0
max_wpm_without_floor(data) == fold_max(data, f64(0))

\* max_wpm: the largest WPM of the smoothed curve, 10.0 at least
max_wpm(data) == RatMax(fold_max(data, f64(0)), f64(10))

\* the bins b..n-1, in order, that the filter count > 0 lets through
RECURSIVE filter_bins(_, _, _)
filter_bins(bins, b, n) ==
    IF b >= n THEN << >>
    ELSE IF n = b + 1 THEN (IF bins[b] > 0 THEN << b >> ELSE << >>)
    ELSE LET mid == (b + n) \div 2 IN
         filter_bins(bins, b, mid) \o filter_bins(bins, mid, n)

\* error_data: one point for each bin with errors, at the bin's start time
\* and at its count scaled to max_wpm
normalized_bins(raw, data, errors) ==
    LET bins == error_bins(raw, errors)
        kept == filter_bins(bins, 0, num_bins(raw))
        most == max_error_count(raw, errors)
    IN  [ k \in 1..Len(kept) |->
            << RatMul(f64(kept[k]), bin_size),
               IF most > 0
               THEN RatMul(Frac(bins[kept[k]], most), max_wpm(data))
               ELSE f64(0) >> ]

\* render_performance_view on the two series of a session
render_performance_view(samples, errors) ==
    LET raw_wpm_data == points(samples) IN
    /\ wpm_data' = interpolate_data(raw_wpm_data, 20)
    /\ error_data' = normalized_bins(raw_wpm_data, wpm_data', points(errors))

\* render_main: the result that HistoryDetails shows, the list being drawn
\* newest first
shown_index ==
    IF selected_history_index < Len(history)
    THEN Len(history) - 1 - selected_history_index
    ELSE 0

\* ui::draw: the performance view of the session in Results, of the
\* selected result in HistoryDetails; the other screens draw no curve
draw ==
    /\ running
    /\ IF mode = "Results"
       THEN render_performance_view(wpm_history, error_points)
       ELSE IF mode = "HistoryDetails" /\ shown_index < Len(history)
       THEN render_performance_view(history[shown_index + 1].wpm_history,
                                    history[shown_index + 1].error_points)
       ELSE UNCHANGED frame
    /\ UNCHANGED << running, mode, session, settings, history, selection,
                    store, now, key_events, last_key >>

\* the WPM values and the times, in clock units, of the series below
SampleWpms == { << 6, 1 >>, << 24, 1 >> }

SampleTimes == { UnitsPerSec, 2 * UnitsPerSec, 3 * UnitsPerSec }

ErrorTimes == { 0, 1, 2 * UnitsPerSec, 3 * UnitsPerSec }

\* the sequences over S of length at most n
SeqsUpTo(S, n) == UNION { [ 1..k -> S ] : k \in 0..n }

Ascending(series) ==
    \A i \in 1..(Len(series) - 1) : series[i][1] <= series[i + 1][1]

\* results as the engine saves them: both series ascending in time, every
\* sample at 1 second or later, and no error point after the last sample
\* (before 1 second, when the session was too short for a sample)
ViewResults ==
    { TestResult(0, Display(Words(10)), << 0, 1 >>, << 100, 1 >>, samples, errors) :
        samples \in { w \in SeqsUpTo(SampleTimes \X SampleWpms, MaxSamples) :
                        Ascending(w) },
        errors \in { e \in SeqsUpTo(ErrorTimes \X { << 0, 1 >> }, MaxErrors) :
                       Ascending(e) } }

\* the details of the newest of two stored results, opened from the
\* history list: the state after the keys 'h' and Enter
ViewInit ==
    /\ \E r \in ViewResults :
          /\ (\A j \in 1..Len(r.error_points) :
                 IF r.wpm_history = << >>
                 THEN r.error_points[j][1] < UnitsPerSec
                 ELSE r.error_points[j][1] <= r.wpm_history[Len(r.wpm_history)][1])
          /\ history = << StoredResults[1], r >>
    /\ store = File(to_json(history))
    /\ running = TRUE
    /\ mode = "HistoryDetails"
    /\ input = << >>
    /\ target_text = << >>
    /\ start_time = None
    /\ end_time = None
    /\ cursor_position = 0
    /\ test_mode = Words(10)
    /\ include_punctuation = FALSE
    /\ include_numbers = FALSE
    /\ total_correct_strokes = 0
    /\ total_incorrect_strokes = 0
    /\ wpm_history = << >>
    /\ error_points = << >>
    /\ last_wpm_sample = None
    /\ selected_history_index = 0
    /\ history_state = Some(0)
    /\ now = 0
    /\ key_events = 2
    /\ last_key = Some(Enter)
    /\ wpm_data = << >>
    /\ error_data = << >>

ViewNext == draw

ViewSpec == ViewInit /\ [][ViewNext]_vars

(***************************************************************************)
(* The typing arm on a text of three words: a session in progress whose    *)
(* typed text is drawn from a bounded set, and the keystroke that follows. *)
(***************************************************************************)
\* the longest typed text drawn
MaxTyped == 5

\* three entries of WORDS, as start_typing joins them
LockWords == << << "t", "t" >>, << "t" >>, << "t", "t", "t" >> >>

\* the texts a session on target can hold while Typing: check_completion
\* has not ended it
TypedTexts(target) ==
    { inp \in SeqsUpTo(TypedChars, MaxTyped) : len(inp) < len(target) }

\* the positions (from 1) of inp whose keystroke did not match target
mismatches(inp, target) ==
    { i \in 1..Len(inp) : nth(target, i - 1) # Some(inp[i]) }

RECURSIVE typed_errors(_, _, _)
\* the error points of the keystrokes that typed inp: one for each
\* mismatch among the positions upto.., in order, all at the instant the
\* timer started
typed_errors(inp, target, upto) ==
    IF upto > Len(inp) THEN << >>
    ELSE IF upto \in mismatches(inp, target)
    THEN << << 0, << 0, 1 >> >> >> \o typed_errors(inp, target, upto + 1)
    ELSE typed_errors(inp, target, upto + 1)

\* the session after start_typing and the keystrokes that typed inp, one
\* after the other within the instant 0, one key event short of the bound
LockInit ==
    /\ store \in InitialStores
    /\ history = IF load_history(store).ok THEN load_history(store).value ELSE << >>
    /\ running = TRUE
    /\ mode = "Typing"
    /\ target_text = join(LockWords)
    /\ input \in TypedTexts(target_text)
    /\ cursor_position = chars_count(input)
    /\ start_time = IF input = << >> THEN None ELSE Some(0)
    /\ end_time = None
    /\ test_mode = Words(10)
    /\ include_punctuation = FALSE
    /\ include_numbers = FALSE
    /\ total_incorrect_strokes = Cardinality(mismatches(input, target_text))
    /\ total_correct_strokes = Len(input) - total_incorrect_strokes
    /\ wpm_history = << >>
    /\ error_points = typed_errors(input, target_text, 1)
    /\ last_wpm_sample = None
    /\ history_state = None
    /\ selected_history_index = 0
    /\ now = 0
    /\ key_events = MaxKeyEvents - 1
    /\ last_key = IF input = << >> THEN Some(Enter)
                  ELSE Some(Char(input[Len(input)]))
    /\ wpm_data = << >>
    /\ error_data = << >>

LockNext == handle_events

LockSpec == LockInit /\ [][LockNext]_vars

(***************************************************************************)
(* A timed session under a clock that outlasts every time limit, with the  *)
(* main loop's tick and the clock never held back for ever.                *)
(***************************************************************************)
\* the instants the clock is read at: those of Instants within the first
\* second, and one for each time limit, late enough to end a session
\* started within the first second
LiveInstants ==
    (0..MaxFine) \cup { limit * UnitsPerSec + MaxFine : limit \in { 15, 30, 60 } }

\* time passing between two steps of the main loop
pass_time ==
    /\ running
    /\ mode = "Typing"
    /\ \E t \in LiveInstants : t > now /\ now' = t
    /\ UNCHANGED << running, mode, session, settings, history, selection,
                    store, key_events, last_key, frame >>

\* the Welcome screen after 't' was pressed once, twice or three times
LiveInit ==
    /\ store \in InitialStores
    /\ history = IF load_history(store).ok THEN load_history(store).value ELSE << >>
    /\ running = TRUE
    /\ mode = "Welcome"
    /\ input = << >>
    /\ target_text = << >>
    /\ start_time = None
    /\ end_time = None
    /\ cursor_position = 0
    /\ \E presses \in 1..3 :
          /\ key_events = presses
          /\ test_mode = IF presses = 1 THEN cycle_time_mode(Words(10))
                         ELSE IF presses = 2
                         THEN cycle_time_mode(cycle_time_mode(Words(10)))
                         ELSE cycle_time_mode(cycle_time_mode(cycle_time_mode(Words(10))))
    /\ last_key = Some(Char("t"))
    /\ include_punctuation = FALSE
    /\ include_numbers = FALSE
    /\ total_correct_strokes = 0
    /\ total_incorrect_strokes = 0
    /\ wpm_history = << >>
    /\ error_points = << >>
    /\ last_wpm_sample = None
    /\ history_state = None
    /\ selected_history_index = 0
    /\ now = 0
    /\ wpm_data = << >>
    /\ error_data = << >>

LiveNext == handle_events \/ tick \/ pass_time

\* the loop of main calls tick on every iteration and the wall clock moves
LiveSpec ==
    LiveInit /\ [][LiveNext]_vars /\ WF_vars(tick) /\ WF_vars(pass_time)

(***************************************************************************)
(* Steps, as the claims name them.                                         *)
(***************************************************************************)
\* handle_events has read the key event key
KeyStep(key) == key_events' = key_events + 1 /\ last_key' = Some(key)

\* a character keystroke is handled while Typing
CharStep ==
    /\ mode = "Typing"
    /\ key_events' = key_events + 1
    /\ last_key'[1].code = "Char"

\* a backspace is handled while Typing
BackspaceStep == mode = "Typing" /\ KeyStep(Backspace)

\* a step of tick: no key is read and the clock stands
TickStep == key_events' = key_events /\ now' = now

\* the start action, from Welcome or from Results
StartStep == mode # "Typing" /\ mode' = "Typing"

\* s without its last character
Most(s) == SubSeq(s, 1, Len(s) - 1)

Last(s) == s[Len(s)]

(***************************************************************************)
(* C1: in every reachable state cursor_position equals the number of       *)
(* characters in input.                                                    *)
(***************************************************************************)
C1_CursorIsInputLength == cursor_position = chars_count(input)

\* an unblocked backspace has removed one of two typed characters, and the
\* one left is not ASCII: input holds one character in two bytes
C1_Witness ==
    /\ mode = "Typing"
    /\ last_key = Some(Backspace)
    /\ total_correct_strokes + total_incorrect_strokes = 2
    /\ input = << "E" >>
    /\ len(input) = 2

(***************************************************************************)
(* C2: a backspace in Typing with input ending in a space is blocked       *)
(* (input unchanged) iff the just-completed word, the characters of input  *)
(* between the previous space (or index 0) and the trailing space, equals  *)
(* the characters of target_text at the same positions; in every other     *)
(* case the last character of input is removed.                            *)
(***************************************************************************)
\* the position (from 0) at which the word that s has just finished starts
WordStart(s) ==
    LET spaces == { i \in 1..(Len(s) - 1) : s[i] = " " } IN
    IF spaces = {} THEN 0 ELSE CHOOSE i \in spaces : \A j \in spaces : j <= i

\* the characters of s at the positions from..to-1, those that exist
Slice(s, from, to) == SubSeq(s, from + 1, Min(to, Len(s)))

C3_BackspaceKeepsCounters ==
    [][ BackspaceStep =>
          UNCHANGED << total_correct_strokes, total_incorrect_strokes,
                       error_points >> ]_vars

\* the first character typed wrongly, deleted, and typed again correctly:
\* one character of input, two strokes counted and the error point kept
C3_Witness ==
    /\ mode = "Typing"
    /\ last_key = Some(Char("t"))
    /\ input = << "t" >>
    /\ cursor_position = 1
    /\ total_correct_strokes = 1
    /\ total_incorrect_strokes = 1
    /\ Len(error_points) = 1

(***************************************************************************)
(* C4: every character keystroke handled in Typing adds 1 to exactly one   *)
(* of the two stroke counters, the correct one when the character equals   *)
(* target_text at cursor_position and the incorrect one otherwise, and no  *)
(* event other than a start changes either counter.                        *)
(***************************************************************************)
C4_OneCounterPerKeystroke ==
    [][ IF CharStep
        THEN IF /\ cursor_position < Len(target_text)
                /\ last_key'[1].c = target_text[cursor_position + 1]
             THEN /\ total_correct_strokes' = total_correct_strokes + 1
                  /\ total_incorrect_strokes' = total_incorrect_strokes
             ELSE /\ total_correct_strokes' = total_correct_strokes
                  /\ total_incorrect_strokes' = total_incorrect_strokes + 1
        ELSE StartStep \/ UNCHANGED << total_correct_strokes,
                                       total_incorrect_strokes >> ]_vars

\* a session with correct and incorrect keystrokes behind it, the last one
\* a correct character typed after a non-ASCII one
C4_Witness ==
    /\ mode = "Typing"
    /\ last_key = Some(Char(" "))
    /\ input = << "E", " " >>
    /\ target_text = << "t", " ", "t", "t" >>
    /\ total_correct_strokes = 1
    /\ total_incorrect_strokes = 1

(***************************************************************************)
(* C5: in word-count mode and in time mode alike, a character keystroke in *)
(* Typing moves the session to Results iff, with the character appended,   *)
(* input has as many characters as target_text.                            *)
(***************************************************************************)
C5_CompletesAtEqualLength ==
    [][ CharStep =>
          (mode' = "Results" <=> chars_count(input') = chars_count(target_text)) ]_vars

(***************************************************************************)
(* C6: a session finishes at most once: end_time is assigned and one       *)
(* Finished-result is appended to history only in the step in which mode   *)
(* goes from Typing to Results, and every such step does both.             *)
(***************************************************************************)
\* the step that finishes a session
Finishing ==
    /\ mode = "Typing"
    /\ mode' = "Results"
    /\ end_time = None
    /\ end_time' = Some(now)
    /\ Len(history') = Len(history) + 1
    /\ SubSeq(history', 1, Len(history)) = history

C6_FinishesOnce ==
    [][ /\ (history' # history => Finishing)
        /\ (end_time' # end_time /\ end_time' # None => Finishing)
        /\ (mode' = "Results" /\ mode # "Results" => Finishing) ]_vars

\* a time-mode session that the time-limit tick has finished, the text not
\* exhausted, and a key read after it: one result, the file was missing
C6_Witness ==
    /\ mode = "Results"
    /\ test_mode.kind = "Time"
    /\ len(input) < len(target_text)
    /\ end_time # None
    /\ Len(history) = 1
    /\ last_key = Some(Tab)

(***************************************************************************)
(* C7: in every reachable state, if end_time is set then mode is Results.  *)
(***************************************************************************)
C7_EndTimeOnlyInResults == end_time # None => mode = "Results"

\* a finished session, left by quitting
C7_Witness == end_time # None /\ mode = "Results" /\ ~running

(***************************************************************************)
(* C8: in every reachable state, in any mode, if start_time is unset then  *)
(* both stroke counters are 0.                                             *)
(***************************************************************************)
C8_NoTimerNoStrokes ==
    start_time = None =>
        total_correct_strokes = 0 /\ total_incorrect_strokes = 0

(***************************************************************************)
(* C9: in time mode with limit L, a tick handled while Typing with the     *)
(* time since the first keystroke >= L moves the session to Results, sets  *)
(* end_time and, the elapsed time being >= 1 second, makes the final WPM   *)
(* sample the last entry of wpm_history; a tick with elapsed < L never     *)
(* ends the session.                                                       *)
(***************************************************************************)
\* the timer has run for the time limit of the time mode, or longer
LimitReached ==
    /\ test_mode.kind = "Time"
    /\ start_time # None
    /\ now - start_time[1] >= test_mode.n * UnitsPerSec

C9_TimeLimitTick ==
    /\ []((running /\ mode = "Typing" /\ LimitReached) =>
            ENABLED (tick /\ mode' = "Results"))
    /\ [][ (TickStep /\ mode = "Typing" /\ test_mode.kind = "Time") =>
             IF LimitReached
             THEN LET elapsed == now - start_time[1] IN
                  /\ mode' = "Results"
                  /\ end_time' = Some(now)
                  /\ elapsed >= UnitsPerSec =>
                       /\ wpm_history' # << >>
                       /\ Last(wpm_history') =
                            << elapsed,
                               Rat(len(input) * 60 * UnitsPerSec, 5 * elapsed) >>
             ELSE mode' = "Typing" /\ end_time' = None ]_vars

\* a 15-second session ended by the tick at 15 seconds with text left to
\* type: the final sample is the last entry of wpm_history
C9_Witness ==
    /\ mode = "Results"
    /\ test_mode = Time(15)
    /\ len(input) < len(target_text)
    /\ start_time = Some(0)
    /\ end_time = Some(15 * UnitsPerSec)
    /\ wpm_history # << >>
    /\ Last(wpm_history)[1] = 15 * UnitsPerSec

(***************************************************************************)
(* C10: the timer starts lazily: the start action leaves start_time unset, *)
(* only the first character keystroke of the session sets it (ticks and    *)
(* backspaces do not), and until then no tick appends a WPM sample or ends *)
(* the session, in time mode too and however much time passes.             *)
(***************************************************************************)
C10_LazyTimer ==
    /\ []((mode = "Typing" /\ start_time = None) =>
            wpm_history = << >> /\ last_wpm_sample = None /\ end_time = None)
    /\ [][ /\ StartStep => start_time' = None
           /\ (mode = "Typing" /\ start_time = None) =>
                IF CharStep
                THEN start_time' = Some(now)
                ELSE /\ start_time' = None
                     /\ mode' # "Results"
                     /\ history' = history ]_vars

\* a time-mode session 15 seconds after its start, a backspace handled and
\* no character typed yet: no timer, no sample, still Typing
C10_Witness ==
    /\ mode = "Typing"
    /\ test_mode = Time(15)
    /\ now = 15 * UnitsPerSec
    /\ last_key = Some(Backspace)
    /\ start_time = None
    /\ wpm_history = << >>

(***************************************************************************)
(* C11: the start action, from Welcome and from Results alike, yields mode *)
(* Typing with input empty, cursor_position 0, both stroke counters 0,     *)
(* wpm_history and error_points empty, and start_time, end_time and        *)
(* last_wpm_sample unset, whatever the previous session left; test_mode,   *)
(* the two toggles and history are unchanged.                              *)
(***************************************************************************)
\* the start key is handled in Welcome, or a restart key in Results
StartKeyStep ==
    \/ mode = "Welcome" /\ KeyStep(Enter)
    \/ mode = "Results" /\ (KeyStep(Enter) \/ KeyStep(Char("r")))

C11_StartResetsSession ==
    [][ StartKeyStep =>
          /\ mode' = "Typing"
          /\ input' = << >>
          /\ cursor_position' = 0
          /\ total_correct_strokes' = 0
          /\ total_incorrect_strokes' = 0
          /\ wpm_history' = << >>
          /\ error_points' = << >>
          /\ start_time' = None
          /\ end_time' = None
          /\ last_wpm_sample' = None
          /\ UNCHANGED << test_mode, include_punctuation, include_numbers,
                          history >> ]_vars

\* a session restarted from the Results of one that was typed wrongly,
\* sampled and saved
C11_Witness ==
    /\ mode = "Typing"
    /\ last_key = Some(Char("r"))
    /\ input = << >>
    /\ Len(history) = 1
    /\ history[1].wpm_history # << >>
    /\ history[1].error_points # << >>

(***************************************************************************)
(* C12: the cancel action in Typing moves the mode to Welcome and records  *)
(* no result: history, in memory and in the store, is what it was before   *)
(* the cancelled session started, and no later tick or event finishes the  *)
(* cancelled session.                                                      *)
(***************************************************************************)
C12_CancelRecordsNothing ==
    [][ /\ (mode = "Typing" /\ KeyStep(Esc)) =>
              /\ mode' = "Welcome"
              /\ end_time' = None
              /\ UNCHANGED << history, store >>
        \* a session that is not finished leaves history and the store alone
        /\ (mode = "Typing" /\ mode' # "Results") => UNCHANGED << history, store >>
        \* outside Typing nothing is finished: Results is not entered, and
        \* history, the store and end_time stay, until the next start
        /\ mode # "Typing" =>
              /\ UNCHANGED << history, store >>
              /\ mode' = "Results" => mode = "Results"
              /\ end_time' # end_time => StartStep ]_vars

\* a time-mode session cancelled after its first keystroke, the time limit
\* passed since: nothing recorded, the typed text still in place
C12_Witness ==
    /\ mode = "Welcome"
    /\ running
    /\ last_key = Some(Esc)
    /\ test_mode = Time(15)
    /\ now = 15 * UnitsPerSec
    /\ input # << >>
    /\ start_time = None
    /\ history = << >>
    /\ store = Missing

(***************************************************************************)
(* C13: accuracy is always within [0, 100]: exactly 100 when the two       *)
(* stroke counters sum to 0, and otherwise 100 * total_correct_strokes /   *)
(* (total_correct_strokes + total_incorrect_strokes), for every reachable  *)
(* pair of counters.                                                       *)
(***************************************************************************)
C13_AccuracyInRange ==
    LET accuracy == calculate_accuracy(total_correct_strokes,
                                       total_incorrect_strokes)
        total == total_correct_strokes + total_incorrect_strokes
    IN  /\ accuracy[2] > 0
        /\ 0 <= accuracy[1]
        /\ accuracy[1] <= 100 * accuracy[2]
        /\ total = 0 => accuracy = << 100, 1 >>
        /\ total > 0 => accuracy[1] * total = 100 * total_correct_strokes * accuracy[2]

\* one stroke in three correct: an accuracy of 33 1/3, and the result of
\* the finished session carries it
C13_Witness ==
    /\ mode = "Results"
    /\ total_correct_strokes = 1
    /\ total_incorrect_strokes = 2
    /\ Last(history).accuracy = << 100, 3 >>

(***************************************************************************)
(* C14: WPM is 0 whenever start_time is unset or the measured duration is  *)
(* zero; otherwise it is (input length / 5) / duration-in-minutes, the     *)
(* length counted in characters and the duration being end_time -          *)
(* start_time once end_time is set and now - start_time before that; it is *)
(* never negative.                                                         *)
(***************************************************************************)
\* the duration WPM is measured over, in clock units
MeasuredDuration ==
    IF start_time = None THEN 0
    ELSE IF end_time # None THEN end_time[1] - start_time[1]
    ELSE now - start_time[1]

C14_WpmOfInputLength ==
    LET wpm == calculate_wpm(start_time, end_time, input) IN
    /\ wpm[2] > 0
    /\ wpm[1] >= 0
    /\ IF start_time = None \/ MeasuredDuration = 0
       THEN wpm = << 0, 1 >>
       ELSE wpm[1] * 5 * MeasuredDuration
              = chars_count(input) * 60 * UnitsPerSec * wpm[2]

(***************************************************************************)
(* C15: the Finished-result appended at the Results transition is a        *)
(* snapshot of the session at that moment: its wpm_history (the final      *)
(* sample included) and error_points are the session's series, its wpm and *)
(* accuracy the session's final WPM and accuracy, its mode label           *)
(* "Words: n" or "Time: ns" for the session's test_mode; and no later      *)
(* event changes a result already appended.                                *)
(***************************************************************************)
C15_ResultIsSnapshot ==
    [][ /\ (mode = "Typing" /\ mode' = "Results") =>
              /\ history' # << >>
              /\ Last(history').wpm_history = wpm_history'
              /\ Last(history').error_points = error_points'
              /\ Last(history').wpm = calculate_wpm(start_time', end_time', input')
              /\ Last(history').accuracy =
                     calculate_accuracy(total_correct_strokes',
                                        total_incorrect_strokes')
              /\ Last(history').mode =
                     IF test_mode.kind = "Words"
                     THEN << "Words: ", test_mode.n >>
                     ELSE << "Time: ", test_mode.n, "s" >>
        /\ Len(history') >= Len(history)
        /\ \A i \in 1..Len(history) : history'[i] = history[i] ]_vars

\* a session finished with a final sample and an error point, and another
\* started after it: the result keeps the series the new session has cleared
C15_Witness ==
    /\ mode = "Typing"
    /\ start_time # None
    /\ Len(history) = 3
    /\ history[3].wpm_history # << >>
    /\ history[3].error_points # << >>
    /\ history[3].mode = << "Words: ", 10 >>
    /\ wpm_history = << >>
    /\ error_points = << >>

(***************************************************************************)
(* C16: cycle-word-mode steps the word count through 10 -> 25 -> 50 ->     *)
(* 100 -> 10 and cycle-time-mode the time limit through 15 -> 30 -> 60 ->  *)
(* 15, each wrapping after the last value; applied to a configuration of   *)
(* the other kind each selects its first value, 10 words or 15 seconds.    *)
(***************************************************************************)
C16_CyclesWrap ==
    [][ /\ (mode = "Welcome" /\ KeyStep(Char("w"))) =>
              test_mode' =
                  CASE test_mode = Words(10) -> Words(25)
                    [] test_mode = Words(25) -> Words(50)
                    [] test_mode = Words(50) -> Words(100)
                    [] test_mode = Words(100) -> Words(10)
                    [] test_mode.kind = "Time" -> Words(10)
        /\ (mode = "Welcome" /\ KeyStep(Char("t"))) =>
              test_mode' =
                  CASE test_mode = Time(15) -> Time(30)
                    [] test_mode = Time(30) -> Time(60)
                    [] test_mode = Time(60) -> Time(15)
                    [] test_mode.kind = "Words" -> Time(15) ]_vars

\* the word count back at 10 after four presses of the word-mode key
C16_Witness ==
    /\ mode = "Welcome"
    /\ key_events = 4
    /\ last_key = Some(Char("w"))
    /\ test_mode = Words(10)
    /\ input = << >>
    /\ ~include_punctuation
    /\ ~include_numbers

(***************************************************************************)
(* C17: while mode is Typing no event changes test_mode,                   *)
(* include_punctuation, include_numbers or target_text: the keys that      *)
(* cycle or toggle the configuration in Welcome are ordinary character     *)
(* keystrokes during a session.                                            *)
(***************************************************************************)
C17_ConfigurationFixedInSession ==
    [][ /\ mode = "Typing" =>
              UNCHANGED << test_mode, include_punctuation, include_numbers,
                           target_text >>
        /\ (mode = "Typing" /\ KeyStep(Char("t"))) =>
              /\ input' = Append(input, "t")
              /\ total_correct_strokes' + total_incorrect_strokes'
                   = total_correct_strokes + total_incorrect_strokes + 1 ]_vars

\* the key that cycles the time mode in Welcome, typed as the first
\* character of a session in word mode
C17_Witness ==
    /\ mode = "Typing"
    /\ last_key = Some(Char("t"))
    /\ input = << "t" >>
    /\ test_mode = Words(10)
    /\ total_correct_strokes = 1

(***************************************************************************)
(* C18: the navigation actions (Welcome -> History, up and down in         *)
(* History, History -> HistoryDetails, back to History, back to Welcome)   *)
(* change only the mode and the history selection: input, cursor_position, *)
(* the stroke counters, start_time, end_time, wpm_history, error_points,   *)
(* the test configuration and history are left unchanged.                  *)
(***************************************************************************)
\* a key is handled in History or HistoryDetails, or the history key in
\* Welcome
NavigationStep ==
    \/ mode = "Welcome" /\ KeyStep(Char("h"))
    \/ mode \in { "History", "HistoryDetails" } /\ key_events' = key_events + 1

C18_NavigationKeepsSession ==
    [][ NavigationStep =>
          /\ UNCHANGED << input, cursor_position, total_correct_strokes,
                          total_incorrect_strokes, start_time, end_time,
                          wpm_history, error_points, test_mode,
                          include_punctuation, include_numbers, history >>
          /\ mode' \in { "Welcome", "History", "HistoryDetails" }
          /\ mode = "Welcome" => mode' = "History"
          /\ mode = "HistoryDetails" => mode' \in { "History", "HistoryDetails" }
          /\ mode' = "HistoryDetails" => history # << >>
          /\ history # << >> => selected_history_index' \in 0..(Len(history) - 1) ]_vars

\* the history list opened after a cancelled session and the selection
\* moved up, around to the last of the two stored results: the cancelled
\* session's text and counter are still there
C18_Witness ==
    /\ mode = "History"
    /\ selected_history_index = 1
    /\ Len(history) = 2
    /\ input = << "t" >>
    /\ total_correct_strokes = 1

(***************************************************************************)
(* C19: failures of the history store never abort a session: when saving   *)
(* fails at the Results transition the mode still becomes Results and the  *)
(* new result is in the in-memory history; when loading fails at startup   *)
(* the application starts in Welcome with an empty history.                *)
(***************************************************************************)
C19_StoreFailuresAreNotFatal ==
    /\ []((key_events = 0 /\ ~load_history(store).ok) =>
            mode = "Welcome" /\ running /\ history = << >>)
    /\ [][ (mode = "Typing" /\ end_time' # None /\ store' = store) =>
             /\ mode' = "Results"
             /\ running'
             /\ Len(history') = Len(history) + 1
             /\ SubSeq(history', 1, Len(history)) = history
             /\ Last(history').wpm_history = wpm_history' ]_vars

\* the history file did not parse at startup and could not be written at
\* the end of the session: Results, with the result in memory
C19_Witness ==
    /\ mode = "Results"
    /\ running
    /\ store = Corrupt
    /\ Len(history) = 1
    /\ end_time # None

(***************************************************************************)
(* C20: saving a sequence of results and then loading returns the same     *)
(* sequence in the same order (save replaces the whole stored collection), *)
(* so after each finished session with a successful save the store holds   *)
(* the results loaded at startup followed by every result finished since,  *)
(* oldest first.                                                           *)
(***************************************************************************)
\* a save of results either fails and leaves the file as it is, or leaves
\* a file that loads as results
SavedThenLoaded(results) ==
    \A file \in save_history(store, results) :
        \/ file = store
        \/ /\ load_history(file).ok
           /\ load_history(file).value = results

ShownResult == history[Len(history) - selected_history_index]

C21_SmoothingKeepsLast ==
    [][ LET raw == points(ShownResult.wpm_history) IN
        IF Len(raw) < 2
        THEN wpm_data' = raw
        ELSE wpm_data' # << >> /\ Last(wpm_data') = Last(raw) ]_vars

\* three samples drawn as two segments of 20 points and the last sample
C21_Witness ==
    /\ Len(ShownResult.wpm_history) = 3
    /\ Len(wpm_data) = 41
    /\ wpm_data[1] = points(ShownResult.wpm_history)[1]
    /\ Last(wpm_data) = << f64(3), f64(24) >>

(***************************************************************************)
(* C22: the error-density series has exactly one entry for each time bin   *)
(* that contains at least one error point and none for an empty bin, and   *)
(* an entry's value is (bin count / largest bin count) x the maximum WPM   *)
(* observed in the session's samples: the fullest bin maps exactly to that *)
(* maximum and no entry exceeds it.                                        *)
(***************************************************************************)
\* the 1.5-second bin an error point of the shown result falls in
BinOf(error) == (2 * error[1]) \div (3 * UnitsPerSec)

BinCount(b) ==
    Cardinality({ j \in 1..Len(ShownResult.error_points) :
                    BinOf(ShownResult.error_points[j]) = b })

NonEmptyBins ==
    { BinOf(ShownResult.error_points[j]) : j \in 1..Len(ShownResult.error_points) }

LargestBinCount == Largest({ BinCount(b) : b \in NonEmptyBins })

\* the largest WPM among the points of a series, 0 for none
RECURSIVE LargestWpm(_)
LargestWpm(series) ==
    IF series = << >> THEN f64(0)
    ELSE IF Len(series) = 1 THEN series[1][2]
    ELSE LET half == Len(series) \div 2
             left == LargestWpm(SubSeq(series, 1, half))
             right == LargestWpm(SubSeq(series, half + 1, Len(series)))
         IN  IF RatLeq(left, right) THEN right ELSE left

\* the series drawn has one entry for each non-empty bin, at the bin's
\* start, with the bin's share of the fullest bin scaled to top
DensityScaledTo(series, top) ==
    /\ Len(series) = Cardinality(NonEmptyBins)
    /\ \A b \in NonEmptyBins :
          \E k \in 1..Len(series) :
             /\ series[k][1] = Frac(3 * b, 2)
             /\ series[k][2] = RatMul(Frac(BinCount(b), LargestBinCount), top)
             /\ RatLeq(series[k][2], top)
             /\ BinCount(b) = LargestBinCount => series[k][2] = top

C22_DensityScaledToObservedMax ==
    [][ DensityScaledTo(error_data', LargestWpm(ShownResult.wpm_history)) ]_vars

\* the claim amended: the scale is the largest WPM of the smoothed curve,
\* and 10 at least
C22_DensityScaledToCurveMax ==
    [][ DensityScaledTo(error_data', RatMax(LargestWpm(wpm_data'), f64(10))) ]_vars

\* a slow session, 6 WPM at most: two errors in the first bin and one in
\* the second are drawn at 10 and at 5
C22_Witness ==
    /\ LargestWpm(ShownResult.wpm_history) = f64(6)
    /\ Len(ShownResult.error_points) = 3
    /\ error_data = << << f64(0), f64(10) >>, << << 3, 2 >>, f64(5) >> >>

(***************************************************************************)
(* C23: in every reachable state error_points has as many entries as       *)
(* total_incorrect_strokes counts: each incorrect keystroke appends        *)
(* exactly one error point, stamped with the elapsed time whatever it is   *)
(* (also below one second), and no other step appends to or removes from   *)
(* error_points short of the reset at start.                               *)
(***************************************************************************)
\* the keystroke handled in this step was counted as incorrect
IncorrectStroke ==
    CharStep /\ total_incorrect_strokes' = total_incorrect_strokes + 1

C23_OneErrorPointPerIncorrectStroke ==
    /\ [](Len(error_points) = total_incorrect_strokes)
    /\ [][ IF IncorrectStroke
           THEN /\ Most(error_points') = error_points
                /\ Last(error_points')[1] = now - start_time'[1]
           ELSE IF StartStep THEN error_points' = << >>
           ELSE error_points' = error_points ]_vars

\* the first keystroke is incorrect and its error point is stamped 0, and
\* so is the second, half a second later
C23_Witness ==
    /\ mode = "Typing"
    /\ total_incorrect_strokes = 2
    /\ Len(error_points) = 2
    /\ error_points[1][1] = 0
    /\ error_points[2][1] = 1

(***************************************************************************)
(* C24: no entry of wpm_history has an elapsed time below one second, and  *)
(* any two consecutive entries are at least one second of elapsed time     *)
(* apart.                                                                  *)
(***************************************************************************)
\* no sample of the series before the first second
NoneBeforeOneSecond(series) ==
    \A i \in 1..Len(series) : series[i][1] >= UnitsPerSec

\* the samples 1..upto of the series are a second or more apart
OneSecondApart(series, upto) ==
    \A i \in 1..(upto - 1) : series[i + 1][1] - series[i][1] >= UnitsPerSec

\* the claim as stated: every two consecutive entries
C24_SamplesOneSecondApart ==
    /\ NoneBeforeOneSecond(wpm_history)
    /\ OneSecondApart(wpm_history, Len(wpm_history))

\* the claim amended: the entries that tick sampled; the final sample of a
\* finished session is not throttled
C24_PeriodicSamplesOneSecondApart ==
    /\ NoneBeforeOneSecond(wpm_history)
    /\ OneSecondApart(wpm_history,
                      IF end_time = None \/ wpm_history = << >>
                      THEN Len(wpm_history) ELSE Len(wpm_history) - 1)

\* a session ends in the tick that took a periodic sample: the final
\* sample has the elapsed time of the one before it
C24_Witness ==
    /\ mode = "Results"
    /\ Len(wpm_history) = 2
    /\ wpm_history[1][1] = wpm_history[2][1]
    /\ last_wpm_sample = Some(now)

(***************************************************************************)
(* C25: in every reachable state the elapsed times of wpm_history and of   *)
(* error_points are non-decreasing in sequence order, the final sample     *)
(* taken at the Results transition included.                               *)
(***************************************************************************)
NonDecreasing(series) ==
    \A i \in 1..(Len(series) - 1) : series[i][1] <= series[i + 1][1]

C25_ElapsedNonDecreasing ==
    NonDecreasing(wpm_history) /\ NonDecreasing(error_points)

\* a finished session with a periodic sample, a later final sample and two
\* error points at different times
C25_Witness ==
    /\ mode = "Results"
    /\ Len(wpm_history) = 2
    /\ wpm_history[1][1] < wpm_history[2][1]
    /\ wpm_history[2][1] = now - start_time[1]
    /\ Len(error_points) = 2
    /\ error_points[1][1] < error_points[2][1]

(***************************************************************************)
(* C26: the word-boundary lock compares the segment of input from the      *)
(* start of the just-finished word through the end of input with the       *)
(* characters of target_text at the same positions and blocks exactly when *)
(* the two are equal; a blocked backspace and a backspace on empty input   *)
(* change no field of the session.                                         *)
(***************************************************************************)
C26_LockComparesSegment ==
    [][ BackspaceStep =>
          IF \/ input = << >>
             \/ /\ Last(input) = " "
                /\ Slice(input, WordStart(input), Len(input))
                     = Slice(target_text, WordStart(input), Len(input))
          THEN UNCHANGED << session, mode >>
          ELSE input' = Most(input) /\ cursor_position' = cursor_position - 1 ]_vars

(***************************************************************************)
(* C27: once a backspace has been blocked with input of length k, the      *)
(* first k characters of input stay as they are for the rest of the        *)
(* session: no keystroke and no backspace shortens input below k or        *)
(* changes that prefix, also when an earlier word inside the prefix was    *)
(* typed incorrectly.                                                      *)
(***************************************************************************)
\* a backspace on the typed text s is one the lock blocks: s ends in a
\* space and its last segment is that of target_text, byte for byte
Locked(s) ==
    /\ s # << >>
    /\ Last(s) = " "
    /\ LET from == len(Most(s)) - len(Slice(s, WordStart(s), Len(s) - 1))
       IN  SubSeq(as_bytes(s), from + 1, len(s))
             = SubSeq(as_bytes(target_text), from + 1, Min(len(s), len(target_text)))

\* the lengths at which input holds a prefix that blocks a backspace
LockedLengths == { k \in 1..Len(input) : Locked(SubSeq(input, 1, k)) }

C27_BlockedPrefixStays ==
    [][ mode = "Typing" =>
          /\ (BackspaceStep /\ input # << >> /\ input' = input) => Locked(input)
          /\ \A k \in LockedLengths :
                /\ Len(input') >= k
                /\ SubSeq(input', 1, k) = SubSeq(input, 1, k) ]_vars

\* the first word was typed as a space, incorrectly, and the space after
\* it correctly: a backspace was blocked at length 2, and so was the next
C27_Witness ==
    /\ mode = "Typing"
    /\ key_events = 5
    /\ last_key = Some(Backspace)
    /\ input = << " ", " " >>
    /\ total_incorrect_strokes = 1
    /\ total_correct_strokes = 1

(***************************************************************************)
(* C28: in every state with mode Typing reached through the start action,  *)
(* input is strictly shorter than target_text, so that no keystroke is     *)
(* handled with cursor_position at or beyond the end of target_text.       *)
(***************************************************************************)
C28_TypingInsideTarget ==
    /\ [](mode = "Typing" =>
            /\ len(input) < len(target_text)
            /\ chars_count(input) < chars_count(target_text)
            /\ cursor_position < chars_count(target_text))
    /\ [][ CharStep => nth(target_text, cursor_position) # None ]_vars

\* one character short of the end of the text
C28_Witness ==
    /\ mode = "Typing"
    /\ last_key = Some(Char("t"))
    /\ input = << "t", " ", "t" >>
    /\ target_text = << "t", " ", "t", "t" >>

(***************************************************************************)
(* C29: in time mode, once the first character keystroke has started the   *)
(* timer, if ticks keep occurring, the clock advances and the session is   *)
(* not cancelled, the session eventually reaches Results, whatever         *)
(* keystrokes and backspaces are interleaved with the ticks.               *)
(***************************************************************************)
\* a timed session whose timer has started, early enough for the clock of
\* the model to outlast its time limit
TimerRunning ==
    /\ mode = "Typing"
    /\ test_mode.kind = "Time"
    /\ start_time # None
    /\ start_time[1] <= MaxFine

\* the session was cancelled: Esc is the only way from Typing to Welcome
Cancelled == mode = "Welcome"

C29_TimedSessionEnds == TimerRunning ~> (mode = "Results" \/ Cancelled)

\* a session of 30 seconds ended by tick at its time limit, with the text
\* unfinished and a backspace the last key
C29_Witness ==
    /\ mode = "Results"
    /\ test_mode = Time(30)
    /\ last_key = Some(Backspace)
    /\ len(input) < len(target_text)
    /\ end_time # None
    /\ end_time[1] - start_time[1] >= 30 * UnitsPerSec

(***************************************************************************)
(* C30: a tick never changes input, cursor_position, target_text, the      *)
(* stroke counters or error_points; outside Typing mode it changes nothing *)
(* at all, and in word-count mode it never sets end_time, changes the mode *)
(* or appends to history.                                                  *)
(***************************************************************************)
C30_TickFrame ==
    [][ TickStep =>
          /\ UNCHANGED << input, cursor_position, target_text,
                          total_correct_strokes, total_incorrect_strokes,
                          error_points >>
          /\ mode # "Typing" => UNCHANGED vars
          /\ test_mode.kind = "Words" =>
                UNCHANGED << end_time, mode, history, store >> ]_vars

\* a tick has taken a sample in a session of word-count mode, which goes on
C30_Witness ==
    /\ mode = "Typing"
    /\ test_mode.kind = "Words"
    /\ input # << >>
    /\ Len(wpm_history) = 1
    /\ last_wpm_sample = Some(now)
    /\ end_time = None

(***************************************************************************)
(* C31: the in-memory history is append-only: every step either leaves     *)
(* history unchanged or appends exactly one result at its end; the entries *)
(* already present are never removed, reordered or modified, and only the  *)
(* transition to Results appends.                                          *)
(***************************************************************************)
C31_HistoryAppendOnly ==
    [][ \/ history' = history
        \/ /\ mode = "Typing"
           /\ mode' = "Results"
           /\ Len(history') = Len(history) + 1
           /\ Most(history') = history ]_vars

\* a session has ended and its result stands after the two results the
\* history file held
C31_Witness ==
    /\ mode = "Results"
    /\ Len(history) = 3
    /\ Most(history) = StoredResults
    /\ Last(history).mode = Display(test_mode)
    /\ Last(history).wpm_history = wpm_history

(***************************************************************************)
(* C32: history browsing stays in range: mode HistoryDetails is reached    *)
(* only with a non-empty history, and whenever history is non-empty and    *)
(* the mode is History or HistoryDetails, selected_history_index is below  *)
(* the number of results and equals the table selection; up from the first *)
(* row wraps to the last and down from the last wraps to the first, and    *)
(* with an empty history up, down and select do nothing.                   *)
(***************************************************************************)
\* a key of the History screen is handled: one of keys
HistoryStep(keys) ==
    mode = "History" /\ key_events' = key_events + 1 /\ last_key'[1] \in keys

Browsing == mode \in { "History", "HistoryDetails" }

C32_BrowsingInRange ==
    /\ [](mode = "HistoryDetails" => history # << >>)
    /\ []((Browsing /\ history # << >>) =>
            /\ selected_history_index < Len(history)
            /\ history_state = Some(selected_history_index)
            /\ shown_index \in 0..(Len(history) - 1))
    /\ [][ /\ HistoryStep({ Up, Char("k") }) /\ history # << >> =>
                selected_history_index' =
                    IF selected_history_index = 0 THEN Len(history) - 1
                    ELSE selected_history_index - 1
           /\ HistoryStep({ Down, Char("j") }) /\ history # << >> =>
                selected_history_index' =
                    IF selected_history_index = Len(history) - 1 THEN 0
                    ELSE selected_history_index + 1
           /\ HistoryStep({ Up, Char("k"), Down, Char("j"), Enter }) /\ history = << >> =>
                UNCHANGED << mode, selection, history >> ]_vars

\* down from the first of two rows, and down again from the last: the
\* selection is back on the first row
C32_Witness ==
    /\ mode = "History"
    /\ Len(history) = 2
    /\ key_events = 3
    /\ last_key = Some(Down)
    /\ selected_history_index = 0
    /\ history_state = Some(0)

(***************************************************************************)
(* C33: for every result the engine produces, error binning loses no       *)
(* error point: each error point's time falls inside the range of bins     *)
(* derived from the result's last WPM sample (the default range when there *)
(* are no samples), so that the bin counts sum to the number of error      *)
(* points.                                                                 *)
(***************************************************************************)
\* the sum of the counts of the bins b..n-1
RECURSIVE SumBins(_, _, _)
SumBins(bins, b, n) ==
    IF b >= n THEN 0
    ELSE IF n = b + 1 THEN bins[b]
    ELSE LET mid == (b + n) \div 2 IN SumBins(bins, b, mid) + SumBins(bins, mid, n)

\* every error point of the result r is counted in a bin
AllBinned(r) ==
    LET raw == points(r.wpm_history)
        errors == points(r.error_points)
    IN  /\ \A j \in 1..Len(errors) : floor_bins(errors[j][1]) < num_bins(raw)
        /\ SumBins(error_bins(raw, errors), 0, num_bins(raw)) = Len(errors)

C33_NoErrorPointLost == \A i \in 1..Len(history) : AllBinned(history[i])

\* a session that ended after 15 seconds on an incorrect keystroke: its
\* last error point has the time of the final sample and falls in the last
\* of the eleven bins
C33_Witness ==
    /\ mode = "Results"
    /\ history # << >>
    /\ Last(history).wpm_history = wpm_history
    /\ wpm_history # << >>
    /\ error_points # << >>
    /\ Last(error_points)[1] = 15 * UnitsPerSec
    /\ Last(wpm_history)[1] = 15 * UnitsPerSec
    /\ floor_bins(as_secs_f64(Last(error_points)[1])) = 10
    /\ num_bins(points(wpm_history)) = 11

====
